---- MODULE Spec2Model ----
(***************************************************************************)
(* Watch-channel lifecycle manager of src/cmd/sheetcontent/main.go         *)
(* (type DriveWatcher): the in-memory registry activeChannels, the         *)
(* persisted state document .drive-channels.json, and the operations       *)
(* NewDriveWatcher, WatchFile, StopWatch, RenewWatch, StopAllChannels,     *)
(* one iteration of StartChannelRenewer and WebhookHandler.                *)
(*                                                                         *)
(* Time is counted in whole hours.  Remote calls (Files.Watch and          *)
(* Channels.Stop) succeed or fail nondeterministically.  File-system calls *)
(* (os.WriteFile, os.Remove) are taken to succeed.  Under Spec every       *)
(* operation runs to completion before the next one starts.                *)
(***************************************************************************)
EXTENDS Integers, Sequences, FiniteSets, TLC

\* ---------------------------------------------------------------- bounds
\* Number of distinct tracked files (values of the fileId arguments).
NumFiles == 2
\* Number of channel ids uuid.New() hands out in one behaviour.
MaxIds == 2
\* The clock stops advancing at this hour.
MaxTime == 20
\* A lifetime, in hours, the remote service may grant instead of the requested one.
ShortGrant == 3
\* The longest time, in hours, the remote calls of one operation take.
MaxLatency == 1
\* Number of times the ticker of the renewer fires in one behaviour.
MaxTicks == 3

\* ------------------------------------------------------ program constants
\* MaxChannelDuration = 24 * time.Hour
MaxChannelDuration == 24
\* time.Until(info.Expiration) < 4*time.Hour
RenewThreshold == 4
\* http.StatusOK and http.StatusMethodNotAllowed
StatusOK == 200
StatusMethodNotAllowed == 405
\* time.NewTicker(20 * time.Hour)
TickInterval == 20

Files == 1..NumFiles
ResourceStates == {"sync", "change", "update", "exists"}

VARIABLES
    activeChannels, \* dw.activeChannels: channel id -> ChannelInfo
    stateFile,      \* the content of StateFile on disk
    nextId,         \* the next value uuid.New() returns
    now,            \* time.Now(), in hours
    started,        \* NewDriveWatcher has returned in the running process
    last,           \* what the last operation was given and what it answered
    nextTick,       \* when the ticker of StartChannelRenewer fires next; 0: no ticker
    mu,             \* dw.mu: the goroutine that holds it, or "free"
    pc,             \* where each goroutine of the running process is
    loc             \* the local variables of each goroutine

vars == <<activeChannels, stateFile, nextId, now, started, last, nextTick, mu, pc, loc>>

\* What the operations taken one at a time leave alone: the ticker of the
\* renewer, the mutex, and the position and locals of each goroutine.
aux == <<nextTick, mu, pc, loc>>

\* ------------------------------------------------------------- registry
\* make(map[string]*ChannelInfo)
EmptyRegistry == [id \in {} |-> 0]

\* dw.activeChannels[id] = info
Put(reg, id, info) ==
    [k \in DOMAIN reg \cup {id} |-> IF k = id THEN info ELSE reg[k]]

\* delete(dw.activeChannels, id) for every id of ids
DeleteAll(reg, ids) == [k \in DOMAIN reg \ ids |-> reg[k]]

\* The resourceId the remote service reports for a watched file.
ResourceIdOf(fileId) == NumFiles + fileId

\* ------------------------------------------------------ persisted document
\* os.ReadFile fails with IsNotExist
NoFile == [exists |-> FALSE, valid |-> FALSE, channels |-> <<>>]
\* a document json.Unmarshal rejects
CorruptFile == [exists |-> TRUE, valid |-> FALSE, channels |-> <<>>]

\* json.MarshalIndent of the map: one member per key, in key order
RECURSIVE MarshalChannels(_, _)
MarshalChannels(reg, keys) ==
    IF keys = {} THEN <<>>
    ELSE LET k == CHOOSE x \in keys : \A y \in keys : x <= y
         IN  <<[key |-> k, id |-> reg[k].Id, resource_id |-> reg[k].ResourceId,
                file_id |-> reg[k].FileId, expiration |-> reg[k].Expiration]>>
             \o MarshalChannels(reg, keys \ {k})

\* json.Unmarshal into ChannelState.Channels: the last member of a key wins
UnmarshalChannels(channels) ==
    [k \in {channels[i].key : i \in 1..Len(channels)} |->
        LET i == CHOOSE j \in 1..Len(channels) :
                    /\ channels[j].key = k
                    /\ \A m \in (j+1)..Len(channels) : channels[m].key # k
        IN  [Id |-> channels[i].id, ResourceId |-> channels[i].resource_id,
             FileId |-> channels[i].file_id, Expiration |-> channels[i].expiration]]

\* saveState writing an empty registry as a document with no members
saveStateWritesEmpty(reg) ==
    [exists |-> TRUE, valid |-> TRUE, channels |-> MarshalChannels(reg, DOMAIN reg)]

\* saveState: the document on disk after it ran on registry reg
saveState(reg) ==
    IF Cardinality(DOMAIN reg) = 0 THEN NoFile
    ELSE [exists |-> TRUE, valid |-> TRUE,
          channels |-> MarshalChannels(reg, DOMAIN reg)]

\* loadState reading the document without taking over its channels
loadStateDropsChannels(file) ==
    [err |-> IF file.exists /\ ~file.valid THEN "load_failed" ELSE "",
     reg |-> EmptyRegistry]

\* loadState run on an empty registry: the error it returns and the registry after
loadState(file) ==
    IF ~file.exists THEN [err |-> "", reg |-> EmptyRegistry]
    ELSE IF ~file.valid THEN [err |-> "load_failed", reg |-> EmptyRegistry]
    ELSE [err |-> "", reg |-> UnmarshalChannels(file.channels)]

\* ------------------------------------------------- lifecycle operations
\* The renewer renewing a channel that has exactly the threshold left
RenewalDueInclusive(expiration, t) == expiration - t <= RenewThreshold

\* info.Expiration.Before(now)
Expired(expiration, t) == expiration < t

\* time.Until(info.Expiration) < 4*time.Hour
RenewalDue(expiration, t) == expiration - t < RenewThreshold

\* cleanupOldChannels keeping the entry of a channel it could not stop
cleanupOldDeletesStopped(stopSucceeded) == stopSucceeded

\* cleanupOldChannels deletes the entry after the remote stop, whatever its result
cleanupOldDeletes(stopSucceeded) == TRUE

\* cleanupOldChannels: if stoppedCount > 0 { dw.saveState() }
cleanupOldSaves(stoppedCount, removedCount) == stoppedCount > 0

\* cleanupOldChannels(fileId); the remote stop succeeds for the ids in stopOk.
\* The loop's iterations commute: each stops one channel and deletes its entry.
cleanupOldChannels(reg, file, fileId, stopOk) ==
    LET channelsToStop == {id \in DOMAIN reg : reg[id].FileId = fileId}
        stopped == channelsToStop \cap stopOk
        deleted == {reg[id].Id : id \in {c \in channelsToStop : cleanupOldDeletes(c \in stopOk)}}
        reg2 == DeleteAll(reg, deleted)
        saves == cleanupOldSaves(Cardinality(stopped), Cardinality(deleted))
    IN  [reg |-> reg2,
         file |-> IF saves THEN saveState(reg2) ELSE file,
         stops |-> channelsToStop, stopped |-> stopped, saved |-> saves]

\* cleanupExpiredChannels() at time t
cleanupExpiredChannels(reg, file, t) ==
    LET expired == {id \in DOMAIN reg : Expired(reg[id].Expiration, t)}
        reg2 == DeleteAll(reg, expired)
        saves == Cardinality(expired) > 0
    IN  [reg |-> reg2, file |-> IF saves THEN saveState(reg2) ELSE file, saved |-> saves]

\* createWatch: Expiration: time.UnixMilli(result.Expiration)
createWatchExpiration(requested, returned) == returned

\* createWatch returning the ChannelInfo without storing it
createWatchInsertNothing(reg, info) == reg

\* createWatch: dw.activeChannels[result.Id] = info
createWatchInsert(reg, info) == Put(reg, info.Id, info)

\* createWatch: if err != nil { return nil, ... }, before info is built and stored
createWatchFailed(reg, channelId, fileId, requested) == reg

\* createWatch(fileId) at time t: uuid.New() gives channelId; Files.Watch fails
\* (answer.ok is FALSE) or answers with the channel id it was given and
\* answer.expiration.
createWatch(reg, file, fileId, channelId, answer, t) ==
    IF ~answer.ok
    THEN [reg |-> createWatchFailed(reg, channelId, fileId, t + MaxChannelDuration),
          file |-> file, err |-> "watch_failed", ret |-> 0, saved |-> FALSE]
    ELSE LET info == [Id |-> channelId, ResourceId |-> ResourceIdOf(fileId),
                      FileId |-> fileId,
                      Expiration |-> createWatchExpiration(t + MaxChannelDuration,
                                                            answer.expiration)]
             reg2 == createWatchInsert(reg, info)
         IN  [reg |-> reg2, file |-> saveState(reg2), err |-> "", ret |-> info.Id,
              saved |-> TRUE]

\* WatchFile(fileId) at time t
WatchFileOp(reg, file, fileId, channelId, stopOk, answer, t) ==
    LET old == cleanupOldChannels(reg, file, fileId, stopOk)
        exp == cleanupExpiredChannels(old.reg, old.file, t)
        cw  == createWatch(exp.reg, exp.file, fileId, channelId, answer, t)
    IN  [reg |-> cw.reg, file |-> cw.file, err |-> cw.err, ret |-> cw.ret,
         stops |-> old.stops, stopped |-> old.stopped,
         saved |-> old.saved \/ exp.saved \/ cw.saved]

\* StopWatch going on to the remote call although the id is not in the registry
StopWatchProceedsAlways(exists) == TRUE

\* StopWatch: if !exists { return fmt.Errorf("channel %s not found", channelId) }
StopWatchProceeds(exists) == exists

\* StopWatch deleting the entry whatever the remote stop answered
StopWatchDeletesAlways(stopSucceeded) == TRUE

\* StopWatch: the delete is reached only when Channels.Stop returned no error
StopWatchDeletes(stopSucceeded) == stopSucceeded

\* StopWatch(channelId); the remote stop succeeds iff stopOk
StopWatchOp(reg, file, channelId, stopOk) ==
    IF ~StopWatchProceeds(channelId \in DOMAIN reg)
    THEN [reg |-> reg, file |-> file, err |-> "not_found",
          stops |-> {}, stopped |-> {}, saved |-> FALSE]
    ELSE LET deletes == StopWatchDeletes(stopOk)
             reg2 == IF deletes THEN DeleteAll(reg, {channelId}) ELSE reg
         IN  [reg |-> reg2,
              file |-> IF deletes THEN saveState(reg2) ELSE file,
              err |-> IF stopOk THEN "" ELSE "stop_failed",
              stops |-> {channelId},
              stopped |-> IF stopOk THEN {channelId} ELSE {},
              saved |-> deletes]

\* RenewWatch running the cleanup of WatchFile before it creates the channel
RenewWatchWithCleanup(reg, file, fileId, oldChannelId, channelId, stopOk, answer, t) ==
    LET st == StopWatchOp(reg, file, oldChannelId, stopOk)
        wf == WatchFileOp(st.reg, st.file, fileId, channelId, {}, answer, t)
    IN  [reg |-> wf.reg, file |-> wf.file, err |-> wf.err, ret |-> wf.ret,
         stopErr |-> st.err, stops |-> st.stops \cup wf.stops,
         stopped |-> st.stopped \cup wf.stopped, saved |-> st.saved \/ wf.saved]

\* RenewWatch(fileId, oldChannelId) at time t
RenewWatchOp(reg, file, fileId, oldChannelId, channelId, stopOk, answer, t) ==
    LET st == StopWatchOp(reg, file, oldChannelId, stopOk)
        cw == createWatch(st.reg, st.file, fileId, channelId, answer, t)
    IN  [reg |-> cw.reg, file |-> cw.file, err |-> cw.err, ret |-> cw.ret,
         stopErr |-> st.err, stops |-> st.stops, stopped |-> st.stopped,
         saved |-> st.saved \/ cw.saved]

\* The orders in which a range over a map may visit the keys in S.
Orders(S) ==
    {o \in [1..Cardinality(S) -> S] : \A i, j \in 1..Cardinality(S) : i # j => o[i] # o[j]}

\* StopAllChannels leaving its loop at the first StopWatch that fails
StopAllStopsAtError(err) == err = ""

\* StopAllChannels: a StopWatch error is logged and the loop goes on
StopAllContinues(err) == TRUE

\* StopAllChannels: for _, info := range channelsToStop { dw.StopWatch(info.Id) }
RECURSIVE StopEach(_, _, _, _)
StopEach(reg, file, order, stopOk) ==
    IF order = <<>>
    THEN [reg |-> reg, file |-> file, stops |-> {}, stopped |-> {}, saved |-> FALSE]
    ELSE LET st == StopWatchOp(reg, file, Head(order), Head(order) \in stopOk)
             rest == StopEach(st.reg, st.file,
                              IF StopAllContinues(st.err) THEN Tail(order) ELSE <<>>,
                              stopOk)
         IN  [reg |-> rest.reg, file |-> rest.file,
              stops |-> st.stops \cup rest.stops,
              stopped |-> st.stopped \cup rest.stopped,
              saved |-> st.saved \/ rest.saved]

\* StartChannelRenewer: for _, channelId := range channelsToRenew { dw.RenewWatch(fileId, channelId) }
\* The stop of channelId succeeds iff it is in stopOk; answers[channelId] is what
\* Files.Watch answers in the renewal of channelId.
RECURSIVE RenewEach(_, _, _, _, _, _, _, _)
RenewEach(reg, file, fileId, order, nid, stopOk, answers, t) ==
    IF order = <<>>
    THEN [reg |-> reg, file |-> file, nextId |-> nid, stops |-> {}, stopped |-> {},
          saved |-> FALSE, granted |-> {}, failed |-> {}]
    ELSE LET old == Head(order)
             rn == RenewWatchOp(reg, file, fileId, old, nid, old \in stopOk,
                                answers[old], t)
             rest == RenewEach(rn.reg, rn.file, fileId, Tail(order),
                               IF rn.err = "" THEN nid + 1 ELSE nid,
                               stopOk, answers, t)
         IN  [reg |-> rest.reg, file |-> rest.file, nextId |-> rest.nextId,
              stops |-> rn.stops \cup rest.stops,
              stopped |-> rn.stopped \cup rest.stopped,
              saved |-> rn.saved \/ rest.saved,
              granted |-> (IF rn.err = "" THEN {<<rn.ret, answers[old].expiration>>} ELSE {})
                          \cup rest.granted,
              failed |-> (IF rn.err = "" THEN {} ELSE {old}) \cup rest.failed]

\* WebhookHandler dispatching the sync handshake too
DispatchesChangeAndSync(resourceState) == resourceState \in {"sync", "change", "update"}

\* WebhookHandler: the cases of the switch that run go dw.handleFileChange
DispatchesChange(resourceState) == resourceState \in {"change", "update"}

\* WebhookHandler dropping the entry of a channel that reports a state it does not know
WebhookHandlerForgets(reg, method, channelId, resourceState) ==
    IF method = "POST" /\ channelId \in DOMAIN reg /\ resourceState = "exists"
    THEN [reg |-> DeleteAll(reg, {channelId}), status |-> StatusOK, handlerCalls |-> 0]
    ELSE [reg |-> reg, status |-> IF method = "POST" THEN StatusOK ELSE StatusMethodNotAllowed,
          handlerCalls |-> IF method = "POST" /\ channelId \in DOMAIN reg
                              /\ DispatchesChange(resourceState) THEN 1 ELSE 0]

\* WebhookHandler(w, r): the registry it leaves, the status it writes and the
\* number of handleFileChange goroutines it starts
WebhookHandlerOp(reg, method, channelId, resourceState) ==
    IF method # "POST"
    THEN [reg |-> reg, status |-> StatusMethodNotAllowed, handlerCalls |-> 0]
    ELSE IF channelId \notin DOMAIN reg
    THEN [reg |-> reg, status |-> StatusOK, handlerCalls |-> 0]
    ELSE [reg |-> reg, status |-> StatusOK,
          handlerCalls |-> IF DispatchesChange(resourceState) THEN 1 ELSE 0]

\* ------------------------------------------------------------ environment
\* What Files.Watch may answer at time t: an error, or the expiration of the
\* new channel, which is the requested one or a shorter one.
WatchAnswers(t) ==
    {[ok |-> FALSE, expiration |-> 0]}
    \cup [ok : {TRUE}, expiration : {t + ShortGrant, t + MaxChannelDuration}]

\* What Channels.Stop may answer when StopWatch(channelId) runs on registry reg:
\* success or an error; FALSE alone stands for both when no call is made.
StopAnswers(reg, channelId) == IF channelId \in DOMAIN reg THEN BOOLEAN ELSE {FALSE}

\* The hours the clock may jump in one step.
TimeSteps == {MaxChannelDuration - RenewThreshold}

\* A channel id no uuid.New() of this program returns.
UnknownId == MaxIds + 1

\* The channel ids a caller or the remote service can name when uuid.New() is
\* about to return nid: those it has returned so far, and an unknown one.
NameableIds(nid) == (1..(nid - 1)) \cup {UnknownId}

\* The requests the webhook receives: r.Method and the X-Goog-Channel-ID and
\* X-Goog-Resource-State headers.  A request that is not a POST is answered
\* before any header is read, so one such request stands for all of them.
Requests(nid) ==
    [method : {"POST"}, channelId : NameableIds(nid), state : ResourceStates]
    \cup {[method |-> "GET", channelId |-> UnknownId, state |-> "change"]}

\* The record of an operation, before the operation fills it in.
NoOp ==
    [op |-> "", fileId |-> 0, channelId |-> 0, method |-> "", state |-> "",
     err |-> "", stopErr |-> "", ret |-> 0, stops |-> {}, stopped |-> {},
     saved |-> FALSE, status |-> 0, handlerCalls |-> 0, rep |-> FALSE, clean |-> TRUE,
     renewed |-> {}, granted |-> {}, failed |-> {}]

\* ------------------------------------------------------------ goroutines
\* The file main is started for (flag -sheet); WatchFile and
\* StartChannelRenewer are called with it.
SheetId == 1

\* The goroutines of main that touch the registry: main itself, the one
\* running StartChannelRenewer and the one waiting for the signal.
Threads == {"main", "renewer", "signal"}

\* A ChannelInfo that is not there yet.
NoInfo == [Id |-> 0, ResourceId |-> 0, FileId |-> 0, Expiration |-> 0]

\* The locals of a goroutine: the ids its loop has still to visit (todo), the
\* snapshot they were taken from (snap), the id it is stopping (old), what the
\* remote stop answered (stopOk), stoppedCount, the error of the last
\* StopWatch (stopErr), the ids it has called Channels.Stop for (stops), those
\* it has called it for more than once (stopsAgain) and those for which the
\* call of StopWatch failed (stopFailed), whether createWatch ran
\* since the last StopWatch (created), the error and the id createWatch
\* returned (err, ret), the ChannelInfo it is about to store (info) and the
\* places its calls return to (stack).
NoLocals ==
    [todo |-> {}, snap |-> {}, old |-> 0, stopOk |-> FALSE, stoppedCount |-> 0,
     stopErr |-> "", stops |-> {}, stopsAgain |-> {}, stopFailed |-> {},
     created |-> FALSE,
     err |-> "", ret |-> 0, info |-> NoInfo, stack |-> <<>>]

\* Before main has built the watcher only main runs.
InitPc == [t \in Threads |-> IF t = "main" THEN "new" ELSE "off"]
InitLoc == [t \in Threads |-> NoLocals]

\* dw.mu.Lock(): where a goroutine is before it, and where it is once it holds
\* the mutex.
Lockers ==
    [co_lock |-> "co_snap", co_dlock |-> "co_del", ce_lock |-> "ce_scan",
     cw_lock |-> "cw_put", sw_lock |-> "sw_look", sw_dlock |-> "sw_del",
     sv_lock |-> "sv_write", rn_lock |-> "rn_snap", sa_lock |-> "sa_snap"]

\* Where a goroutine is while Channels.Stop or Files.Watch is in flight.
RemoteLabels == {"co_call", "sw_call", "cw_call"}

\* ---------------------------------------------------------------- actions
Init ==
    /\ activeChannels = EmptyRegistry
    /\ stateFile \in {NoFile, CorruptFile}
    /\ nextId = 1
    /\ now = 0
    /\ started = FALSE
    /\ last = NoOp
    /\ nextTick = 0
    /\ mu = "free"
    /\ pc = InitPc
    /\ loc = InitLoc

\* NewDriveWatcher: a fresh registry, then loadState; a load error is only logged
NewDriveWatcher ==
    /\ ~started
    /\ LET ld == loadState(stateFile)
       IN  /\ activeChannels' = ld.reg
           /\ last' = [NoOp EXCEPT !.op = "NewDriveWatcher", !.err = ld.err]
    /\ started' = TRUE
    /\ UNCHANGED <<stateFile, nextId, now>>
    /\ UNCHANGED aux

WatchFile ==
    /\ started
    /\ \E fileId \in Files, answer \in WatchAnswers(now) :
       \E stopOk \in SUBSET {id \in DOMAIN activeChannels : activeChannels[id].FileId = fileId} :
          /\ answer.ok => nextId <= MaxIds
          /\ LET r == WatchFileOp(activeChannels, stateFile, fileId, nextId, stopOk,
                                  answer, now)
             IN  /\ activeChannels' = r.reg
                 /\ stateFile' = r.file
                 /\ nextId' = IF r.err = "" THEN nextId + 1 ELSE nextId
                 /\ last' = [NoOp EXCEPT !.op = "WatchFile", !.fileId = fileId,
                                !.err = r.err, !.ret = r.ret, !.stops = r.stops,
                                !.stopped = r.stopped, !.saved = r.saved,
                                !.granted = IF r.err = "" THEN {<<r.ret, answer.expiration>>} ELSE {},
                                !.rep = (last.op = "WatchFile" /\ last.fileId = fileId
                                         /\ last.err = "")]
    /\ UNCHANGED <<now, started>>
    /\ UNCHANGED aux

StopWatch ==
    /\ started
    /\ \E channelId \in NameableIds(nextId) :
       \E stopOk \in StopAnswers(activeChannels, channelId) :
          LET r == StopWatchOp(activeChannels, stateFile, channelId, stopOk)
          IN  /\ activeChannels' = r.reg
              /\ stateFile' = r.file
              /\ last' = [NoOp EXCEPT !.op = "StopWatch", !.channelId = channelId,
                             !.err = r.err, !.stops = r.stops, !.stopped = r.stopped,
                             !.saved = r.saved]
    /\ UNCHANGED <<nextId, now, started>>
    /\ UNCHANGED aux

RenewWatch ==
    /\ started
    /\ \E fileId \in Files, oldChannelId \in NameableIds(nextId), answer \in WatchAnswers(now) :
       \E stopOk \in StopAnswers(activeChannels, oldChannelId) :
          /\ answer.ok => nextId <= MaxIds
          /\ LET r == RenewWatchOp(activeChannels, stateFile, fileId, oldChannelId,
                                   nextId, stopOk, answer, now)
             IN  /\ activeChannels' = r.reg
                 /\ stateFile' = r.file
                 /\ nextId' = IF r.err = "" THEN nextId + 1 ELSE nextId
                 /\ last' = [NoOp EXCEPT !.op = "RenewWatch", !.fileId = fileId,
                                !.channelId = oldChannelId, !.err = r.err,
                                !.stopErr = r.stopErr, !.ret = r.ret, !.stops = r.stops,
                                !.stopped = r.stopped, !.saved = r.saved,
                                !.granted = IF r.err = "" THEN {<<r.ret, answer.expiration>>} ELSE {}]
    /\ UNCHANGED <<now, started>>
    /\ UNCHANGED aux

\* One iteration of the loop of StartChannelRenewer(fileId): the snapshot
\* channelsToRenew, then RenewWatch for each id of it in turn.
RenewerTick ==
    /\ started
    /\ LET channelsToRenew == {id \in DOMAIN activeChannels :
                                  RenewalDue(activeChannels[id].Expiration, now)}
       IN  \E fileId \in Files, order \in Orders(channelsToRenew),
              stopOk \in SUBSET channelsToRenew,
              answers \in [channelsToRenew -> WatchAnswers(now)] :
              /\ nextId + Cardinality({id \in channelsToRenew : answers[id].ok}) - 1 <= MaxIds
              /\ LET r == RenewEach(activeChannels, stateFile, fileId, order, nextId,
                                    stopOk, answers, now)
                 IN  /\ activeChannels' = r.reg
                     /\ stateFile' = r.file
                     /\ nextId' = r.nextId
                     /\ last' = [NoOp EXCEPT !.op = "RenewerTick", !.fileId = fileId,
                                    !.stops = r.stops, !.stopped = r.stopped,
                                    !.saved = r.saved, !.renewed = channelsToRenew,
                                    !.granted = r.granted, !.failed = r.failed]
    /\ UNCHANGED <<now, started>>
    /\ UNCHANGED aux

StopAllChannels ==
    /\ started
    /\ \E order \in Orders(DOMAIN activeChannels), stopOk \in SUBSET DOMAIN activeChannels :
          LET r == StopEach(activeChannels, stateFile, order, stopOk)
          IN  /\ activeChannels' = r.reg
              /\ stateFile' = r.file
              /\ last' = [NoOp EXCEPT !.op = "StopAllChannels", !.stops = r.stops,
                             !.stopped = r.stopped, !.saved = r.saved]
    /\ UNCHANGED <<nextId, now, started>>
    /\ UNCHANGED aux

WebhookHandler ==
    /\ started
    /\ \E request \in Requests(nextId) :
          LET method == request.method
              channelId == request.channelId
              resourceState == request.state
              r == WebhookHandlerOp(activeChannels, method, channelId, resourceState)
          IN  /\ activeChannels' = r.reg
              /\ last' = [NoOp EXCEPT !.op = "WebhookHandler", !.method = method,
                             !.channelId = channelId, !.state = resourceState,
                             !.status = r.status, !.handlerCalls = r.handlerCalls]
    /\ UNCHANGED <<stateFile, nextId, now, started>>
    /\ UNCHANGED aux

\* The clock moves on between two operations.
AdvanceTime ==
    /\ \E d \in TimeSteps :
          /\ now + d <= MaxTime
          /\ now' = now + d
    /\ last' = [NoOp EXCEPT !.op = "AdvanceTime"]
    /\ UNCHANGED <<activeChannels, stateFile, nextId, started>>
    /\ UNCHANGED aux

\* The process ends (os.Exit, log.Fatal, a kill) and is started again: the
\* registry is lost, the document stays.
Exit ==
    /\ started
    /\ started' = FALSE
    /\ activeChannels' = EmptyRegistry
    /\ last' = [NoOp EXCEPT !.op = "Exit"]
    /\ UNCHANGED <<stateFile, nextId, now>>
    /\ UNCHANGED aux

\* The lifecycle operations, one after another.
Next ==
    \/ NewDriveWatcher
    \/ WatchFile
    \/ StopWatch
    \/ RenewWatch
    \/ RenewerTick
    \/ StopAllChannels
    \/ AdvanceTime
    \/ Exit

Spec == Init /\ [][Next]_vars

\* Inbound events between the operations that create and remove channels.
NextDispatch ==
    \/ NewDriveWatcher
    \/ WatchFile
    \/ StopWatch
    \/ WebhookHandler
    \/ AdvanceTime
    \/ Exit

SpecDispatch == Init /\ [][NextDispatch]_vars

\* ------------------------------------------------- main under the clock
\* The hours a remote call may take.
Latencies == 0..MaxLatency

\* What Files.Watch answers at time t when the service grants the expiration
\* it is asked for: an error, or t + MaxChannelDuration.
FullAnswers(t) ==
    {[ok |-> FALSE, expiration |-> 0], [ok |-> TRUE, expiration |-> t + MaxChannelDuration]}

\* main after NewDriveWatcher: WatchFile(*sheetId), log.Fatal on its error,
\* else go StartChannelRenewer(*sheetId), whose ticker starts when the remote
\* calls of WatchFile have taken d hours.
MainWatchFile ==
    /\ started /\ nextTick = 0 /\ last.op = "NewDriveWatcher"
    /\ \E answer \in FullAnswers(now), d \in Latencies :
       \E stopOk \in SUBSET {id \in DOMAIN activeChannels : activeChannels[id].FileId = SheetId} :
          /\ answer.ok => nextId <= MaxIds
          /\ ~answer.ok => d = 0
          /\ LET r == WatchFileOp(activeChannels, stateFile, SheetId, nextId, stopOk,
                                  answer, now)
             IN  /\ stateFile' = r.file
                 /\ IF r.err = ""
                    THEN /\ activeChannels' = r.reg
                         /\ nextId' = nextId + 1
                         /\ now' = now + d
                         /\ nextTick' = now + d + TickInterval
                         /\ started' = TRUE
                    ELSE /\ activeChannels' = EmptyRegistry
                         /\ nextId' = nextId
                         /\ now' = now
                         /\ nextTick' = 0
                         /\ started' = FALSE
                 /\ last' = [NoOp EXCEPT !.op = "MainWatchFile", !.fileId = SheetId,
                                !.err = r.err, !.ret = r.ret, !.stops = r.stops,
                                !.stopped = r.stopped,
                                !.clean = (last.clean /\ r.err = "" /\ r.stops = r.stopped)]
    /\ UNCHANGED <<mu, pc, loc>>

\* The time until the ticker fires passes.
ClockToTick ==
    /\ started /\ nextTick > 0 /\ now < nextTick
    /\ nextTick <= MaxTicks * TickInterval + MaxLatency
    /\ now' = nextTick
    /\ last' = [last EXCEPT !.op = "ClockToTick"]
    /\ UNCHANGED <<activeChannels, stateFile, nextId, started, nextTick, mu, pc, loc>>

\* The ticker of StartChannelRenewer(*sheetId) fires: the snapshot of the
\* entries with less than RenewThreshold left, then RenewWatch for each; the
\* remote calls take d hours and the ticker fires again TickInterval after
\* this tick.
TimedTick ==
    /\ started /\ nextTick > 0 /\ now = nextTick
    /\ LET channelsToRenew == {id \in DOMAIN activeChannels :
                                  RenewalDue(activeChannels[id].Expiration, now)}
       IN  \E d \in Latencies, order \in Orders(channelsToRenew),
              stopOk \in SUBSET channelsToRenew :
           \E answers \in [channelsToRenew -> FullAnswers(now + d)] :
              /\ channelsToRenew = {} => d = 0
              /\ nextId + Cardinality({id \in channelsToRenew : answers[id].ok}) - 1 <= MaxIds
              /\ LET r == RenewEach(activeChannels, stateFile, SheetId, order, nextId,
                                    stopOk, answers, now + d)
                 IN  /\ activeChannels' = r.reg
                     /\ stateFile' = r.file
                     /\ nextId' = r.nextId
                     /\ now' = now + d
                     /\ last' = [NoOp EXCEPT !.op = "TimedTick", !.fileId = SheetId,
                                    !.stops = r.stops, !.stopped = r.stopped,
                                    !.renewed = channelsToRenew, !.failed = r.failed,
                                    !.clean = (last.clean /\ stopOk = channelsToRenew
                                               /\ r.failed = {})]
    /\ nextTick' = nextTick + TickInterval
    /\ UNCHANGED <<started, mu, pc, loc>>

\* main from its start to the ticks of its renewer, the remote calls taking time.
NextRenewer ==
    \/ NewDriveWatcher
    \/ MainWatchFile
    \/ ClockToTick
    \/ TimedTick

SpecRenewer == Init /\ [][NextRenewer]_vars


\* ------------------------------------------- the goroutines, step by step
\* The process ends: its memory is gone, the document stays.
ProcessEnds ==
    /\ started' = FALSE
    /\ activeChannels' = EmptyRegistry
    /\ mu' = "free"
    /\ pc' = InitPc
    /\ loc' = InitLoc

\* A call returns: the goroutine goes on where the call was made.
Return(t, locals) ==
    /\ pc' = [pc EXCEPT ![t] = Head(locals.stack)]
    /\ loc' = [loc EXCEPT ![t] = [locals EXCEPT !.stack = Tail(locals.stack)]]

\* main: NewDriveWatcher, the goroutine waiting for the signal, then the
\* call of WatchFile(*sheetId)
MainStarts ==
    /\ ~started /\ pc["main"] = "new"
    /\ activeChannels' = loadState(stateFile).reg
    /\ started' = TRUE
    /\ pc' = [pc EXCEPT !["main"] = "co_lock", !["signal"] = "sig_wait"]
    /\ loc' = [loc EXCEPT !["main"] = [NoLocals EXCEPT !.stack = <<"wf_ret">>]]
    /\ UNCHANGED <<stateFile, nextId, mu, now, last, nextTick>>

\* dw.mu.Lock()
AcquireLock ==
    /\ \E t \in Threads :
          /\ pc[t] \in DOMAIN Lockers
          /\ mu = "free"
          /\ mu' = t
          /\ pc' = [pc EXCEPT ![t] = Lockers[pc[t]]]
    /\ UNCHANGED <<activeChannels, stateFile, nextId, started, loc, now, last, nextTick>>

\* saveState with the mutex held: the write or the remove, then the deferred Unlock
SaveWrite ==
    /\ \E t \in Threads :
          /\ pc[t] = "sv_write"
          /\ stateFile' = saveState(activeChannels)
          /\ mu' = "free"
          /\ Return(t, loc[t])
    /\ UNCHANGED <<activeChannels, nextId, started, now, last, nextTick>>

\* cleanupOldChannels: channelsToStop collected with the mutex held
CleanupOldSnapshot ==
    /\ \E t \in Threads :
          /\ pc[t] = "co_snap"
          /\ loc' = [loc EXCEPT ![t].todo = {id \in DOMAIN activeChannels :
                                                activeChannels[id].FileId = SheetId},
                                ![t].stoppedCount = 0]
          /\ mu' = "free"
          /\ pc' = [pc EXCEPT ![t] = "co_loop"]
    /\ UNCHANGED <<activeChannels, stateFile, nextId, started, now, last, nextTick>>

\* cleanupOldChannels: the next channel of channelsToStop, or after the loop
\* the save and cleanupExpiredChannels
CleanupOldNext ==
    /\ \E t \in Threads :
          /\ pc[t] = "co_loop"
          /\ IF loc[t].todo = {}
             THEN IF cleanupOldSaves(loc[t].stoppedCount, 0)
                  THEN /\ pc' = [pc EXCEPT ![t] = "sv_lock"]
                       /\ loc' = [loc EXCEPT ![t].stack = <<"ce_lock">> \o @]
                  ELSE /\ pc' = [pc EXCEPT ![t] = "ce_lock"]
                       /\ loc' = loc
             ELSE \E id \in loc[t].todo :
                     /\ pc' = [pc EXCEPT ![t] = "co_call"]
                     /\ loc' = [loc EXCEPT ![t].old = id, ![t].todo = @ \ {id},
                                           ![t].stops = @ \cup {id},
                                           ![t].stopsAgain = @ \cup ({id} \cap loc[t].stops)]
    /\ UNCHANGED <<activeChannels, stateFile, nextId, started, mu, now, last, nextTick>>

\* cleanupOldChannels: Channels.Stop returns
CleanupOldStopReturns ==
    /\ \E t \in Threads, ok \in BOOLEAN :
          /\ pc[t] = "co_call"
          /\ loc' = [loc EXCEPT ![t].stopOk = ok,
                                ![t].stoppedCount = IF ok THEN @ + 1 ELSE @]
          /\ pc' = [pc EXCEPT ![t] = "co_dlock"]
    /\ UNCHANGED <<activeChannels, stateFile, nextId, started, mu, now, last, nextTick>>

\* cleanupOldChannels: delete(dw.activeChannels, info.Id) with the mutex held
CleanupOldDelete ==
    /\ \E t \in Threads :
          /\ pc[t] = "co_del"
          /\ activeChannels' = IF cleanupOldDeletes(loc[t].stopOk)
                               THEN DeleteAll(activeChannels, {loc[t].old})
                               ELSE activeChannels
          /\ mu' = "free"
          /\ pc' = [pc EXCEPT ![t] = "co_loop"]
          /\ loc' = [loc EXCEPT ![t].old = 0, ![t].stopOk = FALSE]
    /\ UNCHANGED <<stateFile, nextId, started, now, last, nextTick>>

\* cleanupExpiredChannels: the scan with the mutex held, then the save if an
\* entry was removed, then createWatch
CleanupExpiredScan ==
    /\ \E t \in Threads :
          /\ pc[t] = "ce_scan"
          /\ LET expired == {id \in DOMAIN activeChannels :
                                Expired(activeChannels[id].Expiration, now)}
             IN  /\ activeChannels' = DeleteAll(activeChannels, expired)
                 /\ IF expired # {}
                    THEN /\ pc' = [pc EXCEPT ![t] = "sv_lock"]
                         /\ loc' = [loc EXCEPT ![t].stack = <<"cw_call">> \o @,
                                               ![t].stoppedCount = 0]
                    ELSE /\ pc' = [pc EXCEPT ![t] = "cw_call"]
                         /\ loc' = [loc EXCEPT ![t].stoppedCount = 0]
          /\ mu' = "free"
    /\ UNCHANGED <<stateFile, nextId, started, now, last, nextTick>>

\* createWatch: Files.Watch returns; on an error createWatch returns it
CreateWatchReturns ==
    /\ \E t \in Threads, answer \in WatchAnswers(now) :
          /\ pc[t] = "cw_call"
          /\ answer.ok => nextId <= MaxIds
          /\ IF answer.ok
             THEN /\ loc' = [loc EXCEPT ![t].created = TRUE,
                                ![t].info = [Id |-> nextId,
                                             ResourceId |-> ResourceIdOf(SheetId),
                                             FileId |-> SheetId,
                                             Expiration |->
                                                createWatchExpiration(now + MaxChannelDuration,
                                                                      answer.expiration)]]
                  /\ pc' = [pc EXCEPT ![t] = "cw_lock"]
                  /\ nextId' = nextId + 1
             ELSE /\ Return(t, [loc[t] EXCEPT !.created = TRUE, !.err = "watch_failed",
                                              !.ret = 0])
                  /\ nextId' = nextId
    /\ UNCHANGED <<activeChannels, stateFile, started, mu, now, last, nextTick>>

\* createWatch: dw.activeChannels[result.Id] = info with the mutex held, then saveState
CreateWatchInsert ==
    /\ \E t \in Threads :
          /\ pc[t] = "cw_put"
          /\ activeChannels' = createWatchInsert(activeChannels, loc[t].info)
          /\ mu' = "free"
          /\ pc' = [pc EXCEPT ![t] = "sv_lock"]
          /\ loc' = [loc EXCEPT ![t].err = "", ![t].ret = loc[t].info.Id,
                                ![t].info = NoInfo]
    /\ UNCHANGED <<stateFile, nextId, started, now, last, nextTick>>

\* StopWatch keeping the mutex after the lookup
StopWatchKeepsLock(t) == t

\* StopWatch: dw.mu.Unlock() after the lookup
StopWatchUnlock(t) == "free"

\* StopWatch: the lookup with the mutex held; an unknown id is an error
StopWatchLookup ==
    /\ \E t \in Threads :
          /\ pc[t] = "sw_look"
          /\ mu' = StopWatchUnlock(t)
          /\ IF StopWatchProceeds(loc[t].old \in DOMAIN activeChannels)
             THEN /\ pc' = [pc EXCEPT ![t] = "sw_call"]
                  /\ loc' = [loc EXCEPT ![t].stops = @ \cup {loc[t].old},
                                        ![t].stopsAgain = @ \cup ({loc[t].old} \cap loc[t].stops)]
             ELSE Return(t, [loc[t] EXCEPT !.stopErr = "not_found"])
    /\ UNCHANGED <<activeChannels, stateFile, nextId, started, now, last, nextTick>>

\* StopWatch: Channels.Stop returns; on an error StopWatch returns it
StopWatchStopReturns ==
    /\ \E t \in Threads, ok \in BOOLEAN :
          /\ pc[t] = "sw_call"
          /\ IF StopWatchDeletes(ok)
             THEN /\ pc' = [pc EXCEPT ![t] = "sw_dlock"]
                  /\ loc' = loc
             ELSE Return(t, [loc[t] EXCEPT !.stopErr = "stop_failed",
                                           !.stopFailed = @ \cup {loc[t].old}])
    /\ UNCHANGED <<activeChannels, stateFile, nextId, started, mu, now, last, nextTick>>

\* StopWatch: delete(dw.activeChannels, channelId) with the mutex held, then saveState
StopWatchDelete ==
    /\ \E t \in Threads :
          /\ pc[t] = "sw_del"
          /\ activeChannels' = DeleteAll(activeChannels, {loc[t].old})
          /\ mu' = "free"
          /\ pc' = [pc EXCEPT ![t] = "sv_lock"]
          /\ loc' = [loc EXCEPT ![t].stopErr = ""]
    /\ UNCHANGED <<stateFile, nextId, started, now, last, nextTick>>

\* main: WatchFile has returned; log.Fatal on its error, else
\* go watcher.StartChannelRenewer(*sheetId) and the HTTP server
MainAfterWatch ==
    /\ pc["main"] = "wf_ret"
    /\ IF loc["main"].err # ""
       THEN ProcessEnds
       ELSE /\ pc' = [pc EXCEPT !["main"] = "serve", !["renewer"] = "rn_wait"]
            /\ loc' = [loc EXCEPT !["main"] = NoLocals]
            /\ UNCHANGED <<activeChannels, started, mu>>
    /\ UNCHANGED <<stateFile, nextId, now, last, nextTick>>

\* StartChannelRenewer: the ticker fires
RenewerTicks ==
    /\ pc["renewer"] = "rn_wait"
    /\ pc' = [pc EXCEPT !["renewer"] = "rn_lock"]
    /\ loc' = [loc EXCEPT !["renewer"] =
                  [NoLocals EXCEPT !.stops = loc["renewer"].stops,
                                   !.stopsAgain = loc["renewer"].stopsAgain]]
    /\ UNCHANGED <<activeChannels, stateFile, nextId, started, mu, now, last, nextTick>>

\* StartChannelRenewer: channelsToRenew collected with the mutex held
RenewerSnapshot ==
    /\ pc["renewer"] = "rn_snap"
    /\ LET channelsToRenew == {id \in DOMAIN activeChannels :
                                  RenewalDue(activeChannels[id].Expiration, now)}
       IN  loc' = [loc EXCEPT !["renewer"].todo = channelsToRenew,
                              !["renewer"].snap = channelsToRenew]
    /\ mu' = "free"
    /\ pc' = [pc EXCEPT !["renewer"] = "rn_loop"]
    /\ UNCHANGED <<activeChannels, stateFile, nextId, started, now, last, nextTick>>

\* StartChannelRenewer: the next id of channelsToRenew: RenewWatch(fileId,
\* channelId), which starts with StopWatch(channelId); after the last id the
\* goroutine waits for the ticker
RenewerNext ==
    /\ pc["renewer"] = "rn_loop"
    /\ IF loc["renewer"].todo = {}
       THEN /\ pc' = [pc EXCEPT !["renewer"] = "rn_wait"]
            /\ loc' = loc
       ELSE \E id \in loc["renewer"].todo :
               /\ pc' = [pc EXCEPT !["renewer"] = "sw_lock"]
               /\ loc' = [loc EXCEPT !["renewer"] =
                             [@ EXCEPT !.old = id, !.todo = @ \ {id}, !.stopErr = "",
                                       !.created = FALSE, !.err = "", !.ret = 0,
                                       !.stack = <<"rn_create">>]]
    /\ UNCHANGED <<activeChannels, stateFile, nextId, started, mu, now, last, nextTick>>

\* RenewWatch giving up when StopWatch returned an error
RenewWatchAbortsOnError(stopErr) == stopErr = ""

\* RenewWatch: the error of StopWatch is logged, createWatch follows
RenewWatchGoesOn(stopErr) == TRUE

\* RenewWatch: StopWatch has returned; return dw.createWatch(fileId)
RenewWatchCreate ==
    /\ pc["renewer"] = "rn_create"
    /\ IF RenewWatchGoesOn(loc["renewer"].stopErr)
       THEN /\ pc' = [pc EXCEPT !["renewer"] = "cw_call"]
            /\ loc' = [loc EXCEPT !["renewer"].stack = <<"rn_loop">>]
       ELSE /\ pc' = [pc EXCEPT !["renewer"] = "rn_loop"]
            /\ loc' = [loc EXCEPT !["renewer"].err = "stop_failed"]
    /\ UNCHANGED <<activeChannels, stateFile, nextId, started, mu, now, last, nextTick>>

\* The goroutine of main waiting on sigChan receives the signal
SignalArrives ==
    /\ pc["signal"] = "sig_wait"
    /\ pc' = [pc EXCEPT !["signal"] = "sa_lock"]
    /\ UNCHANGED <<activeChannels, stateFile, nextId, started, mu, loc, now, last, nextTick>>

\* StopAllChannels: channelsToStop collected with the mutex held
StopAllSnapshot ==
    /\ pc["signal"] = "sa_snap"
    /\ loc' = [loc EXCEPT !["signal"].todo = DOMAIN activeChannels,
                          !["signal"].snap = DOMAIN activeChannels]
    /\ mu' = "free"
    /\ pc' = [pc EXCEPT !["signal"] = "sa_loop"]
    /\ UNCHANGED <<activeChannels, stateFile, nextId, started, now, last, nextTick>>

\* StopAllChannels: StopWatch for the next channel of channelsToStop; after
\* the last one StopAllChannels returns
StopAllNext ==
    /\ pc["signal"] = "sa_loop"
    /\ IF loc["signal"].todo = {} \/ ~StopAllContinues(loc["signal"].stopErr)
       THEN /\ pc' = [pc EXCEPT !["signal"] = "sa_exit"]
            /\ loc' = loc
       ELSE \E id \in loc["signal"].todo :
               /\ pc' = [pc EXCEPT !["signal"] = "sw_lock"]
               /\ loc' = [loc EXCEPT !["signal"].old = id, !["signal"].todo = @ \ {id},
                                     !["signal"].stopErr = "",
                                     !["signal"].stack = <<"sa_loop">>]
    /\ UNCHANGED <<activeChannels, stateFile, nextId, started, mu, now, last, nextTick>>

\* The signal goroutine after StopAllChannels: os.Exit(0)
OsExit ==
    /\ pc["signal"] = "sa_exit"
    /\ ProcessEnds
    /\ UNCHANGED <<stateFile, nextId, now, last, nextTick>>

\* The goroutines of main, interleaved at the mutex operations and at the
\* remote calls.
NextConc ==
    \/ MainStarts
    \/ AcquireLock
    \/ SaveWrite
    \/ CleanupOldSnapshot
    \/ CleanupOldNext
    \/ CleanupOldStopReturns
    \/ CleanupOldDelete
    \/ CleanupExpiredScan
    \/ CreateWatchReturns
    \/ CreateWatchInsert
    \/ StopWatchLookup
    \/ StopWatchStopReturns
    \/ StopWatchDelete
    \/ MainAfterWatch
    \/ RenewerTicks
    \/ RenewerSnapshot
    \/ RenewerNext
    \/ RenewWatchCreate
    \/ SignalArrives
    \/ StopAllSnapshot
    \/ StopAllNext
    \/ OsExit
    \/ AdvanceTime

SpecConc == Init /\ [][NextConc]_vars


\* ----------------------------------------------------------------- claims
\* The operations the claims call lifecycle operations.
LifecycleOps == {"WatchFile", "StopWatch", "RenewWatch", "StopAllChannels"}

\* The registry entries that watch fileId.
EntriesFor(reg, fileId) == {id \in DOMAIN reg : reg[id].FileId = fileId}

\* C1: after every WatchFile(R) that returns no error, the registry holds
\* exactly one entry whose FileId is R and that entry expires in the future,
\* whether or not the remote stops of the cleanup succeeded.
C1_WatchLeavesOneEntry ==
    (last.op = "WatchFile" /\ last.err = "") =>
        /\ Cardinality(EntriesFor(activeChannels, last.fileId)) = 1
        /\ \A id \in EntriesFor(activeChannels, last.fileId) :
              activeChannels[id].Expiration > now

\* C1 witness: a WatchFile(R) right after a WatchFile(R), both without error,
\* where the remote stop of the first call's channel failed.
C1_Witness ==
    /\ last.op = "WatchFile" /\ last.err = "" /\ last.rep
    /\ last.stops # {} /\ last.stopped = {}

\* C2 as claimed: after RenewWatch(R, oldId) returns, oldId is not a key of the
\* registry, whatever the remote stop of oldId answered.
C2_RenewRemovesOld ==
    last.op = "RenewWatch" => last.channelId \notin DOMAIN activeChannels

\* C3: a RenewWatch(R, oldId) that returns a ChannelInfo returns one whose id
\* differs from oldId and was no key of the registry before the call, and the
\* registry after the call holds that ChannelInfo, for R, under its id.
C3_RenewReturnsFreshStoredId ==
    [][(last'.op = "RenewWatch" /\ last'.ret # 0) =>
          /\ last'.ret # last'.channelId
          /\ last'.ret \notin DOMAIN activeChannels
          /\ last'.ret \in DOMAIN activeChannels'
          /\ activeChannels'[last'.ret].Id = last'.ret
          /\ activeChannels'[last'.ret].FileId = last'.fileId]_vars

\* C3 witness: a RenewWatch that stopped the old channel and returned a new one.
C3_Witness ==
    /\ last.op = "RenewWatch" /\ last.ret # 0
    /\ last.stopped = {last.channelId}
    /\ last.ret \in DOMAIN activeChannels

\* C4: StopWatch(id) with id no key of the registry returns the not-found
\* error, issues no remote stop and leaves registry and document as they were.
C4_StopUnknownIsNotFound ==
    [][(last'.op = "StopWatch" /\ last'.channelId \notin DOMAIN activeChannels) =>
          /\ last'.err = "not_found"
          /\ last'.stops = {}
          /\ activeChannels' = activeChannels
          /\ stateFile' = stateFile]_vars

\* C4 witness: StopWatch of an absent id answered not-found while the registry
\* and the document hold another channel.
C4_Witness ==
    /\ last.op = "StopWatch" /\ last.err = "not_found"
    /\ last.channelId \notin DOMAIN activeChannels
    /\ DOMAIN activeChannels # {} /\ stateFile.exists

\* C5 as claimed: whenever a lifecycle operation has changed the registry and
\* returned, the document decoded from storage equals the registry.
C5_PersistedEqualsRegistry ==
    [][(last'.op \in LifecycleOps /\ activeChannels' # activeChannels) =>
          /\ loadState(stateFile').err = ""
          /\ loadState(stateFile').reg = activeChannels']_vars

\* C6: a save on an empty registry removes the document: after an operation
\* that saved and left the registry empty the document is absent; and
\* NewDriveWatcher on an absent document gives an empty registry and no error.
C6_EmptySaveRemovesDocument ==
    /\ (last.saved /\ DOMAIN activeChannels = {}) => ~stateFile.exists
    /\ (last.op = "NewDriveWatcher" /\ ~stateFile.exists) =>
          (activeChannels = EmptyRegistry /\ last.err = "")

\* C6 witness: StopAllChannels stopped the two channels of the registry, all
\* remote stops succeeding, and saved.
C6_Witness ==
    /\ last.op = "StopAllChannels" /\ last.saved
    /\ Cardinality(last.stopped) = 2
    /\ DOMAIN activeChannels = {}

\* C7: every POST is answered with a 2xx status, and handleFileChange is
\* started exactly when the channel id is a key of the registry at the lookup
\* and the resource state is change or update.
C7_DispatchOnKnownChange ==
    [][(last'.op = "WebhookHandler" /\ last'.method = "POST") =>
          /\ last'.status \in 200..299
          /\ last'.handlerCalls =
                IF /\ last'.channelId \in DOMAIN activeChannels
                   /\ last'.state \in {"change", "update"}
                THEN 1 ELSE 0]_vars

\* C7 witness: an update event of a known channel was dispatched.
C7_Witness ==
    /\ last.op = "WebhookHandler" /\ last.method = "POST"
    /\ last.state = "update" /\ last.channelId \in DOMAIN activeChannels
    /\ last.handlerCalls = 1 /\ last.status = StatusOK

\* C8: WebhookHandler leaves the registry and the document as they were, for
\* every request.
C8_DispatchLeavesRegistry ==
    [][last'.op = "WebhookHandler" =>
          /\ activeChannels' = activeChannels
          /\ stateFile' = stateFile]_vars

\* C8 witness: an event of a known channel with a resource state the handler
\* does not know was answered, the registry and the document holding the channel.
C8_Witness ==
    /\ last.op = "WebhookHandler" /\ last.method = "POST"
    /\ last.state = "exists" /\ last.status = StatusOK
    /\ last.channelId \in DOMAIN activeChannels
    /\ stateFile = saveState(activeChannels)

\* C9: in a renewer tick for file R whose remote calls all succeed, every
\* entry A for R with less than the threshold left is gone afterwards, a new
\* entry for R with the expiration the remote service returned is there, and
\* the document lists exactly the registry (one entry when A was the only
\* one); and no tick renews an entry with the threshold or more left.
C9_TickRenewsDueEntries ==
    [][last'.op = "RenewerTick" =>
          \A a \in DOMAIN activeChannels :
             /\ ( /\ last'.stops = last'.stopped /\ last'.failed = {}
                  /\ activeChannels[a].FileId = last'.fileId
                  /\ activeChannels[a].Expiration - now < RenewThreshold ) =>
                   /\ a \notin DOMAIN activeChannels'
                   /\ \E b \in DOMAIN activeChannels' \ DOMAIN activeChannels :
                         /\ activeChannels'[b].FileId = last'.fileId
                         /\ <<b, activeChannels'[b].Expiration>> \in last'.granted
                   /\ loadState(stateFile').reg = activeChannels'
                   /\ DOMAIN activeChannels = {a} =>
                         Cardinality(DOMAIN activeChannels') = 1
             /\ activeChannels[a].Expiration - now >= RenewThreshold =>
                   /\ a \notin last'.renewed
                   /\ a \in DOMAIN activeChannels'
                   /\ activeChannels'[a] = activeChannels[a]]_vars

\* C9 witness: a tick stopped one due channel and created its successor, which
\* is the only entry of the registry and of the document.
C9_Witness ==
    /\ last.op = "RenewerTick" /\ last.failed = {}
    /\ Cardinality(last.renewed) = 1 /\ last.stopped = last.renewed
    /\ Cardinality(last.granted) = 1
    /\ Cardinality(DOMAIN activeChannels) = 1
    /\ \A b \in DOMAIN activeChannels :
          /\ activeChannels[b].FileId = last.fileId
          /\ b \notin last.renewed
    /\ stateFile = saveState(activeChannels)

\* C10: StopWatch(id) with id a key of the registry removes the entry and
\* saves exactly when the remote stop succeeds; when it fails StopWatch
\* returns an error and leaves registry and document as they were.
C10_StopRemovesIffRemoteStopped ==
    [][(last'.op = "StopWatch" /\ last'.channelId \in DOMAIN activeChannels) =>
          /\ last'.stops = {last'.channelId}
          /\ IF last'.stopped = {last'.channelId}
             THEN /\ last'.err = ""
                  /\ activeChannels' = DeleteAll(activeChannels, {last'.channelId})
                  /\ last'.saved
                  /\ loadState(stateFile').reg = activeChannels'
             ELSE /\ last'.err = "stop_failed"
                  /\ ~last'.saved
                  /\ activeChannels' = activeChannels
                  /\ stateFile' = stateFile]_vars

\* C10 witness: StopWatch of a registered id whose remote stop failed.
C10_Witness ==
    /\ last.op = "StopWatch" /\ last.err = "stop_failed"
    /\ last.channelId \in DOMAIN activeChannels
    /\ stateFile = saveState(activeChannels)

\* The registry entries that have expired at time t.
ExpiredAt(reg, t) == {id \in DOMAIN reg : reg[id].Expiration < t}

\* C11: a WatchFile(R) whose Files.Watch fails returns an error and
\* leaves the registry as it was before the call.
C11_FailedWatchLeavesRegistry ==
    [][(last'.op = "WatchFile" /\ last'.err # "") =>
          activeChannels' = activeChannels]_vars

\* C12: between two lifecycle operations the registry holds at most one
\* entry that has not expired for each watched file.
C12_OneLiveEntryPerFile ==
    started =>
       \A fileId \in Files :
          Cardinality(EntriesFor(activeChannels, fileId)
                      \ ExpiredAt(activeChannels, now)) <= 1

\* C13: StopAllChannels calls the remote stop for every entry of the registry,
\* whatever the earlier stops answered; afterwards the registry holds exactly
\* the entries whose stop failed, unchanged.
C13_StopAllStopsEach ==
    [][last'.op = "StopAllChannels" =>
          /\ last'.stops = DOMAIN activeChannels
          /\ DOMAIN activeChannels' = DOMAIN activeChannels \ last'.stopped
          /\ \A id \in DOMAIN activeChannels' : activeChannels'[id] = activeChannels[id]]_vars

\* C13 witness: StopAllChannels on two entries, one stop failed, one succeeded.
C13_Witness ==
    /\ last.op = "StopAllChannels"
    /\ Cardinality(last.stops) = 2
    /\ Cardinality(last.stopped) = 1
    /\ DOMAIN activeChannels = last.stops \ last.stopped

\* C15: a scheduler tick whose remote calls all succeed removes every entry it
\* renews and adds, for each file, as many new entries as it renewed entries
\* of that file, whichever file the scheduler was started for.
C15_TickRenewsForEntryFile ==
    [][(last'.op = "RenewerTick" /\ last'.stopped = last'.renewed /\ last'.failed = {}) =>
          /\ last'.renewed \cap DOMAIN activeChannels' = {}
          /\ \A fileId \in Files :
                Cardinality(EntriesFor(activeChannels', fileId) \ DOMAIN activeChannels)
                = Cardinality(EntriesFor(activeChannels, fileId) \cap last'.renewed)]_vars

\* C17: no entry that had expired when WatchFile or a scheduler tick started
\* is in the registry when it is over.
C17_ExpiredEntriesRemoved ==
    [][last'.op \in {"WatchFile", "RenewerTick"} =>
          ExpiredAt(activeChannels, now) \cap DOMAIN activeChannels' = {}]_vars

\* C20: RenewWatch(R, oldId) leaves every entry other than oldId in the
\* registry, unchanged.
C20_RenewKeepsOtherEntries ==
    [][last'.op = "RenewWatch" =>
          \A id \in DOMAIN activeChannels \ {last'.channelId} :
             /\ id \in DOMAIN activeChannels'
             /\ activeChannels'[id] = activeChannels[id]]_vars

\* C20 witness: a RenewWatch(R, oldId) that created a channel while another
\* entry for R was in the registry, which is still there.
C20_Witness ==
    /\ last.op = "RenewWatch" /\ last.err = ""
    /\ \E id \in EntriesFor(activeChannels, last.fileId) :
          id # last.ret /\ id # last.channelId

\* C16: while main runs with its renewer and every remote call has succeeded,
\* no entry for the watched file has its Expiration in the past.
C16_RenewedBeforeExpiry ==
    (started /\ nextTick > 0 /\ last.clean) =>
       \A id \in EntriesFor(activeChannels, SheetId) :
          activeChannels[id].Expiration >= now

\* C14: when StopAllChannels has returned in the signal goroutine and the
\* process is about to exit, every channel in the registry has been issued a
\* remote stop by StopAllChannels and the document is absent (a document that
\* could not be read at startup and was never written is taken as absent).
C14_ExitLeavesNothing ==
    pc["signal"] = "sa_exit" =>
       /\ DOMAIN activeChannels \subseteq loc["signal"].stops
       /\ ~(stateFile.exists /\ stateFile.valid)

\* C18: a goroutine inside Files.Watch or Channels.Stop does not hold dw.mu,
\* and the id the renewer is stopping comes from the snapshot it took
\* with the mutex held.
C18_NoLockAcrossRemoteCalls ==
    /\ \A t \in Threads : pc[t] \in RemoteLabels => mu # t
    /\ pc["renewer"] = "sw_call" => loc["renewer"].old \in loc["renewer"].snap

\* C18 witness: the renewer is inside a remote call of a renewal from its
\* snapshot while another goroutine holds the mutex.
C18_Witness ==
    /\ pc["renewer"] \in RemoteLabels
    /\ loc["renewer"].old \in loc["renewer"].snap
    /\ mu = "signal"

\* The places where a goroutine holds the mutex; its next step releases it.
HoldingLabels == {Lockers[l] : l \in DOMAIN Lockers}

\* C19: with a renewal and StopAllChannels interleaved, a goroutine waiting
\* for the mutex waits for another goroutine that is about to release it; a
\* renewal that is over has run createWatch whatever its StopWatch returned;
\* and an id X in the snapshot of StopAllChannels that the renewer has renewed
\* is absent once both are over and no remote stop of X failed.
C19_RenewAndStopInterleave ==
    /\ \A t \in Threads :
          pc[t] \in DOMAIN Lockers =>
             \/ mu = "free"
             \/ mu \in Threads \ {t} /\ pc[mu] \in HoldingLabels
    /\ (pc["renewer"] \in {"rn_loop", "rn_wait"} /\ loc["renewer"].old # 0) =>
          loc["renewer"].created
    /\ \A X \in loc["signal"].snap \ loc["signal"].stopFailed :
          (/\ pc["signal"] = "sa_exit"
           /\ pc["renewer"] \in {"rn_loop", "rn_wait"}
           /\ loc["renewer"].old = X
           /\ loc["renewer"].stopErr # "stop_failed") => X \notin DOMAIN activeChannels

\* C19 witness: StopAllChannels is over and had X in its snapshot; the
\* renewal of X, whose StopWatch did not find X any more, has created and
\* stored the new channel.
C19_Witness ==
    /\ pc["signal"] = "sa_exit"
    /\ pc["renewer"] \in {"rn_loop", "rn_wait"}
    /\ loc["renewer"].old \in loc["signal"].snap \ loc["signal"].stopFailed
    /\ loc["renewer"].stopErr = "not_found"
    /\ loc["renewer"].created /\ loc["renewer"].err = ""
    /\ loc["renewer"].ret \in DOMAIN activeChannels

\* C21: NewDriveWatcher always returns a watcher; with no document the
\* registry is empty and loadState returns no error; with a document that
\* cannot be decoded the registry is empty and the error is only logged; with
\* a decodable document the registry has one entry for each member of the
\* document's channel map, under the member's key and with its fields.
C21_LoadAtConstruction ==
    [][last'.op = "NewDriveWatcher" =>
          /\ started'
          /\ IF ~stateFile.exists
             THEN activeChannels' = EmptyRegistry /\ last'.err = ""
             ELSE IF ~stateFile.valid
             THEN activeChannels' = EmptyRegistry /\ last'.err = "load_failed"
             ELSE /\ last'.err = ""
                  /\ DOMAIN activeChannels' =
                        {stateFile.channels[i].key : i \in 1..Len(stateFile.channels)}
                  /\ \A i \in 1..Len(stateFile.channels) :
                        LET m == stateFile.channels[i]
                        IN  activeChannels'[m.key] =
                               [Id |-> m.id, ResourceId |-> m.resource_id,
                                FileId |-> m.file_id, Expiration |-> m.expiration]]_vars

\* C21 witness: NewDriveWatcher has loaded a decodable document that lists a
\* channel.
C21_Witness ==
    /\ last.op = "NewDriveWatcher" /\ last.err = ""
    /\ stateFile.exists /\ stateFile.valid
    /\ DOMAIN activeChannels # {}
    /\ stateFile = saveState(activeChannels)

\* No goroutine is inside a lifecycle operation.
Quiescent ==
    /\ pc["main"] \in {"new", "wf_ret", "serve"}
    /\ pc["renewer"] \in {"off", "rn_wait"}
    /\ pc["signal"] \in {"off", "sig_wait", "sa_exit"}

\* C22: the document is written only by saveState, as the whole registry
\* while the mutex is held, and when no lifecycle operation is in progress
\* in the running process the document holds exactly the registry.
C22_DocumentMirrorsRegistry ==
    (started /\ Quiescent) =>
       /\ mu = "free"
       /\ loadState(stateFile).reg = activeChannels

\* C23: in the running process Channels.Stop is called at most once for each
\* channel id: no goroutine has called it twice for an id and no two
\* goroutines have called it for the same id.
C23_OneRemoteStopPerId ==
    /\ \A t \in Threads : loc[t].stopsAgain = {}
    /\ \A t, u \in Threads : t # u => loc[t].stops \cap loc[u].stops = {}

====
